---- MODULE Spec2Model ----
(***************************************************************************)
(* Model of caelestia/utils/wallpaper.py: the wallpaper selector           *)
(* (get_wallpapers, set_random), the switcher (set_wallpaper) and the      *)
(* per-wallpaper cache (get_thumb, get_smart_opts, animated metadata).     *)
(* Independent invocations of the command run as processes whose file      *)
(* system calls interleave.                                                *)
(***************************************************************************)
EXTENDS Integers, Sequences, FiniteSets, TLC

\* ------------------------------------------------------------------ bounds
\* Number of invocations started in one behaviour.
MaxCalls == 2
\* Number of changes made to the disk from outside the program.
MaxEnv == 1

Procs == {1, 2}

\* ------------------------------------------------------------------ paths
\* A pathlib.Path: its directory components, the stem and the suffix of its
\* last component.  A path is absolute when its first component is "/".
Cwd == <<"/", "home">>
WallsRel == <<"walls">>
WallsAbs == Cwd \o WallsRel
NoDirRel == <<"nowhere">>

P(dir, name, ext) == [dir |-> dir, name |-> name, ext |-> ext]

\* The value standing for "no file" / Python's None where a path is expected.
NoPath == P(<<>>, "", "")

IsAbsolute(path) == Len(path.dir) > 0 /\ path.dir[1] = "/"

\* Path.resolve(): a relative path is taken from the working directory.
Resolve(path) == IF IsAbsolute(path) THEN path ELSE [path EXCEPT !.dir = Cwd \o path.dir]

\* The files of the modelled disk, by canonical path.
FileA == P(WallsAbs, "a", ".png")
FileB == P(WallsAbs, "b", ".GIF")
FileT == P(WallsAbs, "t", ".txt")
FileD == P(WallsAbs, "d", ".png")
FileM == P(WallsAbs, "m", ".png")
FileG == P(Cwd, "g", ".jpg")
Files == {FileA, FileB, FileT, FileD, FileM, FileG}

\* What each canonical path holds before anything is deleted:
\*   "static"  a decodable single-frame image     "anim" a decodable animation
\*   "garbage" a regular file no decoder accepts  "dir"  a directory
\*   "missing" nothing
InitialKind(f) ==
    CASE f = FileA -> "static"
      [] f = FileB -> "anim"
      [] f = FileT -> "static"
      [] f = FileD -> "dir"
      [] f = FileM -> "missing"
      [] f = FileG -> "garbage"

\* str.lower() on the suffixes that occur.
Lower(ext) ==
    CASE ext = ".GIF" -> ".gif"
      [] ext = ".PNG" -> ".png"
      [] OTHER -> ext

ValidSuffixes == {".jpg", ".jpeg", ".png", ".webp", ".tif", ".tiff", ".gif"}

VARIABLES
    src,        \* canonical path -> kind of what is stored there
    pointer,    \* content of wallpaper_path_path (NoPath: the file is missing)
    link,       \* target of wallpaper_link_path (NoPath: no link)
    tlink,      \* wallpaper_thumbnail_path: the cache key whose thumbnail it targets
    cache,      \* cache key -> [thumb, meta, smart]: the files of the cache entry
    inv,        \* per process: the running invocation (program counter and locals)
    calls,      \* invocations started so far
    envs,       \* outside changes made so far
    tampered    \* cache keys whose entry was changed from outside

vars == <<src, pointer, link, tlink, cache, inv, calls, envs, tampered>>
disk == <<src, pointer, link, tlink, cache>>

\* is_valid_image(path): path.is_file() and the lowered suffix is allowed.
IsFile(path) == Resolve(path) \in Files /\ src[Resolve(path)] \in {"static", "anim", "garbage"}
\* (variant: the suffix alone decides, the file is not looked at)
is_valid_image_suffix_only(path) == Lower(path.ext) \in ValidSuffixes
is_valid_image(path) == IsFile(path) /\ Lower(path.ext) \in ValidSuffixes

\* ------------------------------------------------------------------ values
\* Python values that occur where an int, a str or None may stand.
None == [t |-> "none"]
IntV(n) == [t |-> "int", v |-> n]
StrV == [t |-> "str", v |-> 0]
Absent == [t |-> "absent", v |-> 0]

\* Exception classes: IOError is OSError; json.JSONDecodeError and
\* UnicodeDecodeError are both subclasses of ValueError, unrelated to each other.
IsIOError(e) == e \in {"FileNotFoundError", "PermissionError", "IsADirectoryError", "FileExistsError", "OSError"}
OnlyCurrent == "ValueError: Only valid wallpaper is current"
NotAnImage == "ValueError: not a valid image"
NoneFound == "ValueError: No valid wallpapers found"
IsValueError(e) == e \in {"ValueError", "JSONDecodeError", "UnicodeDecodeError", OnlyCurrent, NotAnImage, NoneFound}

\* ------------------------------------------------------------------ decoder
\* What PIL reports for the decodable files: the attributes read by
\* _extract_animated_metadata, the pixel size, and what the colour
\* collaborators derive from the thumbnail (variant label, tone of the 1x1
\* downscale).
Decoded(f) ==
    IF f = FileB
    THEN [is_animated |-> TRUE, n_frames |-> 3, format |-> "GIF", duration |-> IntV(40),
          loop |-> IntV(0), w |-> 300, h |-> 200, tone |-> 60, variant |-> "neutral"]
    ELSE [is_animated |-> FALSE, n_frames |-> 1, format |-> "PNG", duration |-> Absent,
          loop |-> Absent, w |-> 500, h |-> 400, tone |-> 61, variant |-> "vibrant"]

\* Image.open(path) followed by a load: the exception raised, or "none".
OpenError(kind) ==
    CASE kind = "missing" -> "FileNotFoundError"
      [] kind = "dir" -> "IsADirectoryError"
      [] kind = "garbage" -> "UnidentifiedImageError"
      [] OTHER -> "none"

\* Python truthiness of a duration value (img.info.get("duration", 0)).
DurationOf(d) == IF d.t = "absent" THEN IntV(0) ELSE d
Truthy(x) == CASE x.t = "int" -> x.v # 0 [] x.t = "str" -> TRUE [] OTHER -> FALSE

DefaultMetadata ==
    [is_animated |-> FALSE, format |-> "none", n_frames |-> 1,
     frame_duration_ms |-> None, total_duration_ms |-> None, loop |-> None]

\* The body of the try block of _extract_animated_metadata, for an image the
\* decoder opened.  int() of a non-numeric string raises and leaves
\* total_duration None.
MetadataOfImage(img) ==
    LET n_frames == IF img.is_animated THEN img.n_frames ELSE 1
        per_frame_duration == DurationOf(img.duration)
        total_duration ==
            IF img.is_animated /\ Truthy(per_frame_duration) /\ n_frames # 0
                /\ per_frame_duration.t = "int"
            THEN IntV(per_frame_duration.v * n_frames)
            ELSE None
    IN [is_animated |-> img.is_animated,
        format |-> img.format,
        n_frames |-> n_frames,
        frame_duration_ms |-> IF per_frame_duration.t = "int" THEN per_frame_duration ELSE None,
        total_duration_ms |-> total_duration,
        loop |-> IF img.loop.t = "int" THEN img.loop ELSE None]

\* _extract_animated_metadata(path): any exception gives the default record.
extract_animated_metadata(path) ==
    IF OpenError(src[path]) # "none" THEN DefaultMetadata ELSE MetadataOfImage(Decoded(path))

\* ------------------------------------------------------------------ cache files
\* A JSON file of a cache entry is absent, half written ("partial": opened
\* for writing, content not yet complete), or holds bytes: undecodable text
\* ("nonutf8"), text that is no JSON ("garbage"), or a JSON value.  An
\* "unreadable" file refuses both open-for-read and open-for-write.
FAbsent == [t |-> "absent"]
FPartial == [t |-> "partial"]
FGarbage == [t |-> "garbage"]
FNonUtf8 == [t |-> "nonutf8"]
FUnreadable == [t |-> "unreadable"]
FJson(v) == [t |-> "json", v |-> v]

\* JSON values: the two records the program writes and the values a damaged
\* file may hold instead ({} , [1], null).
JOpts(mode, variant) == [j |-> "opts", mode |-> mode, variant |-> variant]
JMeta(m) == [j |-> "meta", m |-> m]
JEmptyDict == [j |-> "emptydict"]
JList == [j |-> "list"]
JNull == [j |-> "null"]

\* json.loads(file.read_text()): the exception raised ("none" if none) and the value.
ReadJson(file) ==
    CASE file.t = "absent" -> [exc |-> "FileNotFoundError", v |-> JNull]
      [] file.t = "unreadable" -> [exc |-> "PermissionError", v |-> JNull]
      [] file.t = "nonutf8" -> [exc |-> "UnicodeDecodeError", v |-> JNull]
      [] file.t \in {"partial", "garbage"} -> [exc |-> "JSONDecodeError", v |-> JNull]
      [] OTHER -> [exc |-> "none", v |-> file.v]

\* Python truthiness of a parsed JSON value.
JTruthy(v) == v.j \in {"opts", "meta", "list"}

\* _read_animated_metadata(cache): every exception gives None.
read_animated_metadata(entry) ==
    LET r == ReadJson(entry.meta) IN IF r.exc = "none" THEN r.v ELSE JNull

EmptyEntry == [thumb |-> "absent", meta |-> FAbsent, smart |-> FAbsent]

\* compute_hash(wall) names the cache directory: one entry per canonical path.
compute_hash(wall) == Resolve(wall)

\* ------------------------------------------------------------------ selector
FileSeq == <<FileA, FileB, FileT, FileD, FileM, FileG>>
Dirs == {Cwd, WallsAbs}

ResolveDir(dir) == IF Len(dir) > 0 /\ dir[1] = "/" THEN dir ELSE Cwd \o dir
IsPrefix(d, e) == Len(d) <= Len(e) /\ SubSeq(e, 1, Len(d)) = d

\* dir.rglob("*"): every entry below dir, named by dir joined with the
\* entry's path relative to dir (so the results are relative when dir is).
Rglob(dir) ==
    LET r == ResolveDir(dir)
        under == SelectSeq(FileSeq, LAMBDA f: src[f] # "missing" /\ IsPrefix(r, f.dir))
    IN [i \in 1..Len(under) |->
            P(dir \o SubSeq(under[i].dir, Len(r) + 1, Len(under[i].dir)), under[i].name, under[i].ext)]

MinOf(S) == CHOOSE x \in S : \A y \in S : x <= y

\* (variant of check_wall: only the width is compared)
check_wall_width_only(wall, filter_size, threshold) ==
    LET img == Decoded(Resolve(wall))
    IN img.w * 10 >= filter_size[1] * threshold

\* check_wall(wall, filter_size, threshold); threshold is given in tenths.
check_wall(wall, filter_size, threshold) ==
    LET img == Decoded(Resolve(wall))
    IN img.w * 10 >= filter_size[1] * threshold /\ img.h * 10 >= filter_size[2] * threshold

\* get_wallpapers(args), with the monitors the compositor reports: the
\* exception raised ("none" if none) and the list returned.
get_wallpapers(args, monitors) ==
    LET walls == SelectSeq(Rglob(args.random), is_valid_image)
        filter_size == <<MinOf({monitors[i].width : i \in 1..Len(monitors)}),
                         MinOf({monitors[i].height : i \in 1..Len(monitors)})>>
        undecodable == {i \in 1..Len(walls) : OpenError(src[Resolve(walls[i])]) # "none"}
    IN CASE ResolveDir(args.random) \notin Dirs -> [exc |-> "none", walls |-> <<>>]
         [] args.no_filter -> [exc |-> "none", walls |-> walls]
         [] undecodable # {} -> [exc |-> "UnidentifiedImageError", walls |-> <<>>]
         [] OTHER -> [exc |-> "none",
                      walls |-> SelectSeq(walls, LAMBDA f: check_wall(f, filter_size, args.threshold))]

\* list.remove(x): removes the first element equal to x, ValueError if none is.
Remove(list, x) ==
    LET hits == {i \in 1..Len(list) : list[i] = x}
    IN IF hits = {} THEN [exc |-> "ValueError", list |-> list]
       ELSE LET i == MinOf(hits)
            IN [exc |-> "none", list |-> SubSeq(list, 1, i - 1) \o SubSeq(list, i + 1, Len(list))]

\* (variant of set_random_catches: except ValueError only)
set_random_catches_value_only(exc) == IsValueError(exc)

\* The except clause of set_random.
set_random_catches(exc) == exc = "FileNotFoundError" \/ IsValueError(exc)

\* The try statement of set_random: the exception that leaves it ("none" when
\* it completes or the except clause catches) and the list afterwards.
set_random_exclude(wallpapers, ptr) ==
    LET removed == Remove(wallpapers, ptr)
        body == CASE ptr = NoPath -> [exc |-> "FileNotFoundError", list |-> wallpapers]
                  [] removed.exc # "none" -> removed
                  [] removed.list = <<>> -> [exc |-> OnlyCurrent, list |-> removed.list]
                  [] OTHER -> removed
    IN IF set_random_catches(body.exc) THEN [body EXCEPT !.exc = "none"] ELSE body

\* ------------------------------------------------------------------ invocations
NoErr == [exc |-> "none", at |-> "none"]
NoRet == [k |-> "none"]
\* get_thumb's result: the thumbnail path of a cache key, with the state the
\* file was in when the call returned.
ThumbRet(key, state) == [k |-> "thumb", key |-> key, state |-> state]
JsonRet(v) == [k |-> "json", v |-> v]

NoScheme == [name |-> "", mode |-> "", variant |-> ""]

\* What an invocation that repeats the activation before it remembers: the
\* persisted state that activation left and the scheme name it read.
NoAgain == [on |-> FALSE, seen |-> "", disk |-> <<>>]

\* The locals of one invocation.  pc is the next statement; stack holds the
\* statements to return to; decoded/opened/wrote/seen record what the
\* invocation did and the scheme name it read; envs0 is the count of outside
\* changes when it began; pool is the list set_random gives random.choice.
Fresh ==
    [pc |-> "idle", op |-> "none", wall |-> NoPath, no_smart |-> FALSE, stack |-> <<>>,
     ret |-> NoRet, err |-> NoErr, sch |-> NoScheme, cands |-> <<>>, last |-> NoPath,
     hook |-> "none", decoded |-> FALSE, opened |-> FALSE, wrote |-> {},
     seen |-> "", envs0 |-> 0, again |-> NoAgain, pool |-> <<>>]

Quiet(p) == inv[p].pc \in {"idle", "done", "failed"}
AllQuiet == \A p \in Procs : Quiet(p)

\* An exception leaves the invocation: it ends failed, at the statement it was in.
Raise(rec, exc) == [rec EXCEPT !.pc = "failed", !.err = [exc |-> exc, at |-> rec.pc], !.stack = <<>>]

\* return retval: back to the caller's next statement, or the end of the invocation.
Return(rec, retval) ==
    IF rec.stack = <<>>
    THEN [rec EXCEPT !.pc = "done", !.ret = retval]
    ELSE [rec EXCEPT !.pc = Head(rec.stack), !.stack = Tail(rec.stack), !.ret = retval]

\* call: continue at callee, come back to after.
CallTo(rec, callee, after) == [rec EXCEPT !.pc = callee, !.stack = <<after>> \o rec.stack]

SchemeNames == {"dynamic", "gruvbox"}

Init ==
    /\ src = [f \in Files |-> InitialKind(f)]
    /\ pointer = NoPath
    /\ link = NoPath
    /\ tlink = NoPath
    /\ cache = [f \in Files |-> EmptyEntry]
    /\ inv = [p \in Procs |-> Fresh]
    /\ calls = 0
    /\ envs = 0
    /\ tampered = {}

\* ------------------------------------------------------------------ entry points
\* Under Spec invocations run one after another, in process Main; under
\* SpecConc each process is one invocation and their steps interleave.
Main == CHOOSE p \in Procs : \A q \in Procs : p <= q

Begin(p, rec) ==
    /\ calls' = calls + 1
    /\ inv' = [inv EXCEPT ![p] = [rec EXCEPT !.envs0 = envs]]
    /\ UNCHANGED <<disk, envs, tampered>>

MayBegin(p) == p = Main /\ AllQuiet /\ calls < MaxCalls

WallArgs == Files \cup {P(WallsRel, "a", ".png")}

\* The record kept when set_wallpaper(wall, no_smart) follows an activation of
\* the same file with the same no_smart, nothing having changed the disk
\* from outside since that activation began.
Again(p, wall, no_smart) ==
    IF /\ inv[p].op = "set_wallpaper" /\ inv[p].pc \in {"done", "failed"}
       /\ inv[p].wall = Resolve(wall) /\ inv[p].no_smart = no_smart
       /\ inv[p].envs0 = envs
    THEN [on |-> TRUE, seen |-> inv[p].seen, disk |-> <<pointer, link, tlink, cache>>]
    ELSE NoAgain

CallSetWallpaper(p) ==
    MayBegin(p) /\ \E wall \in WallArgs, no_smart \in BOOLEAN :
        Begin(p, [Fresh EXCEPT !.pc = "sw_check", !.op = "set_wallpaper",
                               !.wall = wall, !.no_smart = no_smart,
                               !.again = Again(p, wall, no_smart)])

CacheArgs == {FileA, FileB, FileG}

CallGetThumb(p) ==
    MayBegin(p) /\ \E wall \in CacheArgs :
        Begin(p, [Fresh EXCEPT !.pc = "gt_check", !.op = "get_thumb", !.wall = wall])

CallGetSmartOpts(p) ==
    MayBegin(p) /\ \E wall \in CacheArgs :
        Begin(p, [Fresh EXCEPT !.pc = "gs_read", !.op = "get_smart_opts", !.wall = wall])

\* ------------------------------------------------------------------ set_random
Monitors == {<<[width |-> 800, height |-> 600], [width |-> 1920, height |-> 1080]>>}
RandomArgs ==
    [random : {WallsAbs, WallsRel, NoDirRel}, no_filter : BOOLEAN, threshold : {5}, no_smart : BOOLEAN]

\* set_random(args) up to the call of set_wallpaper: the candidates, the
\* exclusion of the current wallpaper, random.choice.
SetRandom(p) ==
    MayBegin(p) /\ \E args \in RandomArgs, monitors \in Monitors :
        LET got == get_wallpapers(args, monitors)
            excl == set_random_exclude(got.walls, pointer)
            rec == [Fresh EXCEPT !.pc = "sr_pick", !.op = "set_random", !.no_smart = args.no_smart,
                                 !.cands = got.walls, !.last = pointer,
                                 !.pool = IF got.exc = "none" THEN excl.list ELSE <<>>]
        IN CASE got.exc # "none" -> Begin(p, Raise(rec, got.exc))
             [] got.walls = <<>> -> Begin(p, Raise(rec, NoneFound))
             [] excl.exc # "none" -> Begin(p, Raise(rec, excl.exc))
             [] excl.list = <<>> -> Begin(p, Raise(rec, "IndexError"))
             [] OTHER -> \E i \in 1..Len(excl.list) :
                            Begin(p, [rec EXCEPT !.pc = "sw_check", !.wall = excl.list[i]])

\* ------------------------------------------------------------------ set_wallpaper
Step(p, rec) == inv' = [inv EXCEPT ![p] = rec]
Key(p) == compute_hash(inv[p].wall)
SetEntry(key, field, value) == cache' = [cache EXCEPT ![key] = [cache[key] EXCEPT ![field] = value]]

\* (variant of SwCheck: the path file is given the path as passed, not resolved)
SwCheck_unresolved(p) ==
    /\ inv[p].pc = "sw_check"
    /\ LET wall == Resolve(inv[p].wall)
           rec == [inv[p] EXCEPT !.op = "set_wallpaper", !.wall = wall, !.cands = <<>>, !.last = NoPath,
                                  !.pool = <<>>]
       IN IF ~is_valid_image(wall)
          THEN /\ Step(p, Raise(rec, NotAnImage))
               /\ UNCHANGED pointer
          ELSE /\ Step(p, [rec EXCEPT !.pc = "sw_unlink"])
               /\ pointer' = inv[p].wall
    /\ UNCHANGED <<src, link, tlink, cache, calls, envs, tampered>>

\* wall = Path(wall).resolve(); the validity check; wallpaper_path_path.write_text.
SwCheck(p) ==
    /\ inv[p].pc = "sw_check"
    /\ LET wall == Resolve(inv[p].wall)
           rec == [inv[p] EXCEPT !.op = "set_wallpaper", !.wall = wall, !.cands = <<>>, !.last = NoPath,
                                  !.pool = <<>>]
       IN IF ~is_valid_image(wall)
          THEN /\ Step(p, Raise(rec, NotAnImage))
               /\ UNCHANGED pointer
          ELSE /\ Step(p, [rec EXCEPT !.pc = "sw_unlink"])
               /\ pointer' = wall
    /\ UNCHANGED <<src, link, tlink, cache, calls, envs, tampered>>

\* wallpaper_link_path.unlink(missing_ok=True)
SwUnlink(p) ==
    /\ inv[p].pc = "sw_unlink"
    /\ link' = NoPath
    /\ Step(p, [inv[p] EXCEPT !.pc = "sw_symlink"])
    /\ UNCHANGED <<src, pointer, tlink, cache, calls, envs, tampered>>

\* (variant of SwSymlink: the symlink_to call is left out)
SwSymlink_left_out(p) ==
    /\ inv[p].pc = "sw_symlink"
    /\ Step(p, [inv[p] EXCEPT !.pc = "sw_meta"])
    /\ UNCHANGED <<disk, calls, envs, tampered>>

\* wallpaper_link_path.symlink_to(wall): FileExistsError when the link is there.
SwSymlink(p) ==
    /\ inv[p].pc = "sw_symlink"
    /\ IF link # NoPath
       THEN Step(p, Raise(inv[p], "FileExistsError")) /\ UNCHANGED link
       ELSE Step(p, [inv[p] EXCEPT !.pc = "sw_meta"]) /\ link' = inv[p].wall
    /\ UNCHANGED <<src, pointer, tlink, cache, calls, envs, tampered>>

\* (variant of SwMeta: the record is written for static images too)
SwMeta_always_write(p) ==
    /\ inv[p].pc = "sw_meta"
    /\ IF ~JTruthy(read_animated_metadata(cache[Key(p)]))
       THEN /\ SetEntry(Key(p), "meta", FPartial)
            /\ Step(p, [inv[p] EXCEPT !.pc = "sw_meta_dump", !.wrote = @ \cup {"meta"}])
       ELSE /\ UNCHANGED cache
            /\ Step(p, CallTo(inv[p], "gt_check", "sw_tunlink"))
    /\ UNCHANGED <<src, pointer, link, tlink, calls, envs, tampered>>

\* metadata = _read_animated_metadata(cache); if not metadata: extract, and
\* for an animated image open animated_meta.json for writing.
SwMeta(p) ==
    /\ inv[p].pc = "sw_meta"
    /\ LET metadata == read_animated_metadata(cache[Key(p)])
           extracted == extract_animated_metadata(inv[p].wall)
       IN IF ~JTruthy(metadata) /\ extracted.is_animated
          THEN /\ SetEntry(Key(p), "meta", FPartial)
               /\ Step(p, [inv[p] EXCEPT !.pc = "sw_meta_dump", !.wrote = @ \cup {"meta"}])
          ELSE /\ UNCHANGED cache
               /\ Step(p, CallTo(inv[p], "gt_check", "sw_tunlink"))
    /\ UNCHANGED <<src, pointer, link, tlink, calls, envs, tampered>>

\* json.dump(metadata, f) and the close of animated_meta.json.
SwMetaDump(p) ==
    /\ inv[p].pc = "sw_meta_dump"
    /\ SetEntry(Key(p), "meta", FJson(JMeta(extract_animated_metadata(inv[p].wall))))
    /\ Step(p, CallTo(inv[p], "gt_check", "sw_tunlink"))
    /\ UNCHANGED <<src, pointer, link, tlink, calls, envs, tampered>>

\* ------------------------------------------------------------------ get_thumb
\* (variant of GtCheck: the thumbnail is regenerated on every call)
GtCheck_always_decode(p) ==
    /\ inv[p].pc = "gt_check"
    /\ LET opened == OpenError(src[inv[p].wall])
           rec == [inv[p] EXCEPT !.decoded = TRUE]
       IN IF opened # "none"
          THEN Step(p, Raise(rec, opened))
          ELSE Step(p, [rec EXCEPT !.pc = "gt_open"])
    /\ UNCHANGED <<disk, calls, envs, tampered>>

\* if not thumb.exists(): img = _load_img_or_first_frame_in_rgb(wall)
GtCheck(p) ==
    /\ inv[p].pc = "gt_check"
    /\ LET state == cache[Key(p)].thumb
           opened == OpenError(src[inv[p].wall])
           rec == [inv[p] EXCEPT !.decoded = TRUE]
       IN CASE state # "absent" -> Step(p, Return(inv[p], ThumbRet(Key(p), state)))
            [] opened # "none" -> Step(p, Raise(rec, opened))
            [] OTHER -> Step(p, [rec EXCEPT !.pc = "gt_open"])
    /\ UNCHANGED <<disk, calls, envs, tampered>>

\* img.save(thumb, "JPEG") opens (creates or truncates) the file.
GtOpen(p) ==
    /\ inv[p].pc = "gt_open"
    /\ SetEntry(Key(p), "thumb", "partial")
    /\ Step(p, [inv[p] EXCEPT !.pc = "gt_close", !.wrote = @ \cup {"thumb"}])
    /\ UNCHANGED <<src, pointer, link, tlink, calls, envs, tampered>>

\* img.save writes the JPEG and closes the file; return thumb.
GtClose(p) ==
    /\ inv[p].pc = "gt_close"
    /\ SetEntry(Key(p), "thumb", "done")
    /\ Step(p, Return(inv[p], ThumbRet(Key(p), "done")))
    /\ UNCHANGED <<src, pointer, link, tlink, calls, envs, tampered>>

\* wallpaper_thumbnail_path.unlink(missing_ok=True)
SwTUnlink(p) ==
    /\ inv[p].pc = "sw_tunlink"
    /\ tlink' = NoPath
    /\ Step(p, [inv[p] EXCEPT !.pc = "sw_tsymlink"])
    /\ UNCHANGED <<src, pointer, link, cache, calls, envs, tampered>>

\* wallpaper_thumbnail_path.symlink_to(thumb)
SwTSymlink(p) ==
    /\ inv[p].pc = "sw_tsymlink"
    /\ IF tlink # NoPath
       THEN Step(p, Raise(inv[p], "FileExistsError")) /\ UNCHANGED tlink
       ELSE Step(p, [inv[p] EXCEPT !.pc = "sw_scheme"]) /\ tlink' = inv[p].ret.key
    /\ UNCHANGED <<src, pointer, link, cache, calls, envs, tampered>>

\* ------------------------------------------------------------------ get_smart_opts
ToneThreshold == 60
\* (variant of ModeOfTone: the threshold itself counts as light)
ModeOfTone_inclusive(tone) == IF tone >= ToneThreshold THEN "light" ELSE "dark"

\* "light" if hct.tone > 60 else "dark"
ModeOfTone(tone) == IF tone > ToneThreshold THEN "light" ELSE "dark"

\* The except clause of get_smart_opts: (IOError, json.JSONDecodeError).
get_smart_opts_catches(exc) == IsIOError(exc) \/ exc = "JSONDecodeError"

\* (variant of GsRead: on a miss the options are computed without get_thumb)
GsRead_without_thumb(p) ==
    /\ inv[p].pc = "gs_read"
    /\ LET r == ReadJson(cache[Key(p)].smart)
           img == Decoded(inv[p].wall)
       IN CASE r.exc = "none" -> Step(p, Return(inv[p], JsonRet(r.v)))
            [] get_smart_opts_catches(r.exc) ->
                 Step(p, [inv[p] EXCEPT !.pc = "gs_open",
                                         !.ret = JsonRet(JOpts(ModeOfTone(img.tone), img.variant))])
            [] OTHER -> Step(p, Raise(inv[p], r.exc))
    /\ UNCHANGED <<disk, calls, envs, tampered>>

\* try: return json.loads(opts_cache.read_text()); on a miss, get_thumb(wall, cache)
GsRead(p) ==
    /\ inv[p].pc = "gs_read"
    /\ LET r == ReadJson(cache[Key(p)].smart)
       IN CASE r.exc = "none" -> Step(p, Return(inv[p], JsonRet(r.v)))
            [] get_smart_opts_catches(r.exc) -> Step(p, CallTo(inv[p], "gt_check", "gs_compute"))
            [] OTHER -> Step(p, Raise(inv[p], r.exc))
    /\ UNCHANGED <<disk, calls, envs, tampered>>

\* with Image.open(thumb): variant and mode from the thumbnail.  A thumbnail
\* whose write has not completed cannot be decoded.
GsCompute(p) ==
    /\ inv[p].pc = "gs_compute"
    /\ LET img == Decoded(inv[p].wall)
           opts == JOpts(ModeOfTone(img.tone), img.variant)
           rec == [inv[p] EXCEPT !.opened = TRUE]
       IN IF cache[Key(p)].thumb # "done"
          THEN Step(p, Raise(rec, "OSError: truncated image"))
          ELSE Step(p, [rec EXCEPT !.pc = "gs_open", !.ret = JsonRet(opts)])
    /\ UNCHANGED <<disk, calls, envs, tampered>>

\* opts_cache.open("w") creates or truncates smart.json.
GsOpen(p) ==
    /\ inv[p].pc = "gs_open"
    /\ IF cache[Key(p)].smart.t = "unreadable"
       THEN Step(p, Raise(inv[p], "PermissionError")) /\ UNCHANGED cache
       ELSE /\ SetEntry(Key(p), "smart", FPartial)
            /\ Step(p, [inv[p] EXCEPT !.pc = "gs_dump", !.wrote = @ \cup {"smart"}])
    /\ UNCHANGED <<src, pointer, link, tlink, calls, envs, tampered>>

\* json.dump(opts, f), the close of smart.json; return opts.
GsDump(p) ==
    /\ inv[p].pc = "gs_dump"
    /\ SetEntry(Key(p), "smart", FJson(inv[p].ret.v))
    /\ Step(p, Return(inv[p], inv[p].ret))
    /\ UNCHANGED <<src, pointer, link, tlink, calls, envs, tampered>>

\* ------------------------------------------------------------------ set_wallpaper, scheme and hook
\* scheme = get_scheme(): the active scheme is the user's choice, with the
\* mode and variant it was last given.
Schemes == [name : SchemeNames, mode : {"dark"}, variant : {"tonalspot"}]

\* (variant of SwScheme: the gate looks at the scheme name only)
SwScheme_name_only(p) ==
    /\ inv[p].pc = "sw_scheme"
    /\ \E scheme \in Schemes :
          LET rec == [inv[p] EXCEPT !.sch = scheme, !.seen = scheme.name, !.ret = NoRet]
          IN IF scheme.name = "dynamic"
             THEN Step(p, CallTo(rec, "gs_read", "sw_smart_apply"))
             ELSE Step(p, [rec EXCEPT !.pc = "sw_update"])
    /\ UNCHANGED <<disk, calls, envs, tampered>>

\* scheme = get_scheme(); if scheme.name == "dynamic" and not no_smart: get_smart_opts
SwScheme(p) ==
    /\ inv[p].pc = "sw_scheme"
    /\ \E scheme \in Schemes :
          LET rec == [inv[p] EXCEPT !.sch = scheme, !.seen = scheme.name, !.ret = NoRet]
          IN IF scheme.name = "dynamic" /\ ~inv[p].no_smart
             THEN Step(p, CallTo(rec, "gs_read", "sw_smart_apply"))
             ELSE Step(p, [rec EXCEPT !.pc = "sw_update"])
    /\ UNCHANGED <<disk, calls, envs, tampered>>

\* scheme.mode = smart_opts["mode"]; scheme.variant = smart_opts["variant"]
SwSmartApply(p) ==
    /\ inv[p].pc = "sw_smart_apply"
    /\ LET smart_opts == inv[p].ret.v
       IN CASE smart_opts.j = "opts" ->
                 Step(p, [inv[p] EXCEPT !.pc = "sw_update", !.sch.mode = smart_opts.mode,
                                         !.sch.variant = smart_opts.variant])
            [] smart_opts.j = "emptydict" -> Step(p, Raise(inv[p], "KeyError"))
            [] OTHER -> Step(p, Raise(inv[p], "TypeError"))
    /\ UNCHANGED <<disk, calls, envs, tampered>>

\* scheme.update_colours(); apply_colours(scheme.colours, scheme.mode)
SwUpdate(p) ==
    /\ inv[p].pc = "sw_update"
    /\ Step(p, [inv[p] EXCEPT !.pc = "sw_hook", !.ret = NoRet, !.sch = NoScheme])
    /\ UNCHANGED <<disk, calls, envs, tampered>>

\* The states of the user config file.
Configs == {"missing", "unreadable", "garbage", "list", "wallpaper_string", "empty", "no_hook",
            "hook_number", "hook_exit0", "hook_exit1", "hook_hangs"}

\* The try block of the post-hook up to subprocess.run: the exception it
\* raises ("none" if none) and whether a hook command is started.
post_hook_try(config) ==
    CASE config = "missing" -> [exc |-> "FileNotFoundError", run |-> FALSE]
      [] config = "unreadable" -> [exc |-> "PermissionError", run |-> FALSE]
      [] config = "garbage" -> [exc |-> "JSONDecodeError", run |-> FALSE]
      [] config \in {"list", "wallpaper_string"} -> [exc |-> "AttributeError", run |-> FALSE]
      [] config = "hook_number" -> [exc |-> "TypeError", run |-> FALSE]
      [] config \in {"empty", "no_hook"} -> [exc |-> "none", run |-> FALSE]
      [] OTHER -> [exc |-> "none", run |-> TRUE]

\* The except clause of the post-hook: (FileNotFoundError, json.JSONDecodeError).
post_hook_catches(exc) == exc \in {"FileNotFoundError", "JSONDecodeError"}

SwHook(p) ==
    /\ inv[p].pc = "sw_hook"
    /\ \E config \in Configs :
          LET t == post_hook_try(config)
          IN CASE t.run -> Step(p, [inv[p] EXCEPT !.pc = "sw_hook_run", !.hook = config])
               [] t.exc = "none" \/ post_hook_catches(t.exc) -> Step(p, Return(inv[p], NoRet))
               [] OTHER -> Step(p, Raise(inv[p], t.exc))
    /\ UNCHANGED <<disk, calls, envs, tampered>>

\* subprocess.run returns when the hook command exits; its status is ignored.
HookExit(p) ==
    /\ inv[p].pc = "sw_hook_run"
    /\ inv[p].hook # "hook_hangs"
    /\ Step(p, Return([inv[p] EXCEPT !.hook = "none"], NoRet))
    /\ UNCHANGED <<disk, calls, envs, tampered>>

\* ------------------------------------------------------------------ outside changes
\* Between invocations the user or another program may delete a wallpaper or
\* damage a cache file.
DeleteSource ==
    /\ AllQuiet /\ envs < MaxEnv
    /\ \E f \in {FileA, FileB} : src[f] # "missing" /\ src' = [src EXCEPT ![f] = "missing"]
    /\ envs' = envs + 1
    /\ UNCHANGED <<pointer, link, tlink, cache, inv, calls, tampered>>

DamagedSmart == {FGarbage, FNonUtf8, FUnreadable, FJson(JEmptyDict), FJson(JList)}
DamagedMeta == {FGarbage, FJson(JEmptyDict), FJson(JList)}

Tamper ==
    /\ AllQuiet /\ envs < MaxEnv
    /\ \E key \in {FileA, FileB} :
          /\ \/ \E c \in DamagedSmart : SetEntry(key, "smart", c)
             \/ \E c \in DamagedMeta : SetEntry(key, "meta", c)
          /\ tampered' = tampered \cup {key}
    /\ envs' = envs + 1
    /\ UNCHANGED <<src, pointer, link, tlink, inv, calls>>

Next ==
    \/ \E p \in Procs : CallSetWallpaper(p)
    \/ \E p \in Procs : CallGetThumb(p)
    \/ \E p \in Procs : CallGetSmartOpts(p)
    \/ \E p \in Procs : SetRandom(p)
    \/ \E p \in Procs : SwCheck(p)
    \/ \E p \in Procs : SwUnlink(p)
    \/ \E p \in Procs : SwSymlink(p)
    \/ \E p \in Procs : SwMeta(p)
    \/ \E p \in Procs : SwMetaDump(p)
    \/ \E p \in Procs : GtCheck(p)
    \/ \E p \in Procs : GtOpen(p)
    \/ \E p \in Procs : GtClose(p)
    \/ \E p \in Procs : SwTUnlink(p)
    \/ \E p \in Procs : SwTSymlink(p)
    \/ \E p \in Procs : SwScheme(p)
    \/ \E p \in Procs : GsRead(p)
    \/ \E p \in Procs : GsCompute(p)
    \/ \E p \in Procs : GsOpen(p)
    \/ \E p \in Procs : GsDump(p)
    \/ \E p \in Procs : SwSmartApply(p)
    \/ \E p \in Procs : SwUpdate(p)
    \/ \E p \in Procs : SwHook(p)
    \/ \E p \in Procs : HookExit(p)
    \/ DeleteSource
    \/ Tamper

Spec == Init /\ [][Next]_vars

\* ------------------------------------------------------------------ concurrent invocations
ConcWalls == {FileA, FileB}

ConcSetWallpaper(p) ==
    /\ inv[p].pc = "idle"
    /\ \E wall \in ConcWalls, no_smart \in BOOLEAN :
          Begin(p, [Fresh EXCEPT !.pc = "sw_check", !.op = "set_wallpaper",
                                 !.wall = wall, !.no_smart = no_smart])

ConcGetThumb(p) ==
    /\ inv[p].pc = "idle"
    /\ \E wall \in ConcWalls :
          Begin(p, [Fresh EXCEPT !.pc = "gt_check", !.op = "get_thumb", !.wall = wall])

NextConc ==
    \/ \E p \in Procs : ConcSetWallpaper(p)
    \/ \E p \in Procs : ConcGetThumb(p)
    \/ \E p \in Procs : SwCheck(p)
    \/ \E p \in Procs : SwUnlink(p)
    \/ \E p \in Procs : SwSymlink(p)
    \/ \E p \in Procs : SwMeta(p)
    \/ \E p \in Procs : SwMetaDump(p)
    \/ \E p \in Procs : GtCheck(p)
    \/ \E p \in Procs : GtOpen(p)
    \/ \E p \in Procs : GtClose(p)
    \/ \E p \in Procs : SwTUnlink(p)
    \/ \E p \in Procs : SwTSymlink(p)
    \/ \E p \in Procs : SwScheme(p)
    \/ \E p \in Procs : GsRead(p)
    \/ \E p \in Procs : GsCompute(p)
    \/ \E p \in Procs : GsOpen(p)
    \/ \E p \in Procs : GsDump(p)
    \/ \E p \in Procs : SwSmartApply(p)
    \/ \E p \in Procs : SwUpdate(p)
    \/ \E p \in Procs : SwHook(p)
    \/ \E p \in Procs : HookExit(p)

SpecConc == Init /\ [][NextConc]_vars

\* ================================================================== claims
Activation(p) == inv[p].op = "set_wallpaper"

\* C1: set_random, when the candidates are exactly the current wallpaper,
\* fails with the ValueError "Only valid wallpaper is current" (and starts
\* no activation).
C1_OnlyCurrentReported ==
    \A p \in Procs :
        (inv[p].op = "set_random" /\ inv[p].cands = <<inv[p].last>>)
            => (inv[p].pc = "failed" /\ inv[p].err.exc = OnlyCurrent)

\* C2: whatever the form of the root directory, when the candidates contain
\* the file the pointer names and another image, the wallpaper set_random
\* hands to set_wallpaper is a candidate and is not the current wallpaper.
C2_CurrentNeverChosen ==
    \A p \in Procs :
        (/\ inv[p].op = "set_random" /\ inv[p].pc = "sw_check"
         /\ Len(inv[p].cands) >= 2
         /\ \E i \in 1..Len(inv[p].cands) : Resolve(inv[p].cands[i]) = inv[p].last)
            => (/\ \E i \in 1..Len(inv[p].cands) : inv[p].cands[i] = inv[p].wall
                /\ Resolve(inv[p].wall) # inv[p].last)

\* C3: set_wallpaper of a path that is missing, is no regular file or has a
\* suffix outside the allowed ones fails with the invalid-image error and
\* leaves the path file, both links and every cache entry as they were.
C3_BadPath(path) ==
    \/ src[Resolve(path)] \in {"missing", "dir"}
    \/ Lower(path.ext) \notin {".jpg", ".jpeg", ".png", ".webp", ".tif", ".tiff", ".gif"}

C3_InvalidImageRejected ==
    [][\A p \in Procs :
          (inv[p].pc = "sw_check" /\ C3_BadPath(inv[p].wall) /\ inv'[p] # inv[p])
              => (/\ inv'[p].pc = "failed"
                  /\ inv'[p].err = [exc |-> NotAnImage, at |-> "sw_check"]
                  /\ UNCHANGED <<pointer, link, tlink, cache>>)]_vars

\* C3 witness: an activation was rejected as invalid while a wallpaper was active.
C3_Witness ==
    \E p \in Procs :
        /\ inv[p].pc = "failed" /\ inv[p].err = [exc |-> NotAnImage, at |-> "sw_check"]
        /\ pointer # NoPath /\ link # NoPath /\ tlink # NoPath

\* C4: an activation run alone fails only in the validity check or the
\* pointer update; past them it completes whatever the image holds.
C4_OnlyValidityAborts ==
    \A p \in Procs :
        (Activation(p) /\ inv[p].pc = "failed")
            => inv[p].err.at \in {"sw_check", "sw_unlink", "sw_symlink"}

\* C5: the post-hook step never fails an activation, whatever the user
\* config holds and however the hook exits.
C5_HookNeverFails ==
    \A p \in Procs : inv[p].pc = "failed" => inv[p].err.at \notin {"sw_hook", "sw_hook_run"}

\* C6: where the thumbnail file exists get_thumb returns it without decoding
\* the source and without writing, and where smart.json parses
\* get_smart_opts returns its content without decoding source or thumbnail
\* and without writing; so a later call succeeds with the cached result even
\* after the source has been deleted.
C6_Memoized ==
    [][\A p \in Procs :
          /\ (inv[p].pc = "gt_check" /\ cache[Key(p)].thumb # "absent" /\ inv'[p] # inv[p])
                => (/\ inv'[p].pc # "failed"
                    /\ inv'[p].ret = ThumbRet(Key(p), cache[Key(p)].thumb)
                    /\ inv'[p].decoded = inv[p].decoded
                    /\ inv'[p].wrote = inv[p].wrote
                    /\ cache' = cache)
          /\ (inv[p].pc = "gs_read" /\ cache[Key(p)].smart.t = "json" /\ inv'[p] # inv[p])
                => (/\ inv'[p].pc # "failed"
                    /\ inv'[p].ret = JsonRet(cache[Key(p)].smart.v)
                    /\ inv'[p].decoded = inv[p].decoded
                    /\ inv'[p].opened = inv[p].opened
                    /\ inv'[p].wrote = inv[p].wrote
                    /\ cache' = cache)]_vars

\* C6 witness: get_thumb has returned the cached thumbnail of a wallpaper
\* whose source file is gone, without decoding or writing anything.
C6_Witness ==
    \E p \in Procs :
        /\ inv[p].op = "get_thumb" /\ inv[p].pc = "done"
        /\ src[inv[p].wall] = "missing"
        /\ inv[p].ret = ThumbRet(inv[p].wall, "done")
        /\ ~inv[p].decoded /\ inv[p].wrote = {}

\* C7: a cache entry the program alone has written holds animated_meta.json
\* only for a wallpaper whose inspection reports an animation, and once an
\* activation of an animated wallpaper is past the metadata step the record
\* is there.
C7_PastMeta(rec) ==
    LET later == {"gt_check", "gt_open", "gt_close", "sw_tunlink", "sw_tsymlink", "sw_scheme",
                  "gs_read", "gs_compute", "gs_open", "gs_dump", "sw_smart_apply",
                  "sw_update", "sw_hook", "sw_hook_run"}
    IN rec.pc \in later \cup {"done"} \/ (rec.pc = "failed" /\ rec.err.at \in later)

C7_AnimatedOnly ==
    /\ \A key \in Files \ tampered :
          cache[key].meta.t # "absent"
              => (InitialKind(key) = "anim" /\ MetadataOfImage(Decoded(key)).is_animated)
    /\ \A p \in Procs :
          (/\ Activation(p) /\ C7_PastMeta(inv[p])
           /\ inv[p].wall \notin tampered
           /\ MetadataOfImage(Decoded(inv[p].wall)).is_animated /\ InitialKind(inv[p].wall) = "anim")
              => cache[inv[p].wall].meta = FJson(JMeta(MetadataOfImage(Decoded(inv[p].wall))))

\* C7 witness: a static and an animated wallpaper have both been activated;
\* only the animated one has a record.
C7_Witness ==
    /\ tampered = {}
    /\ \E p \in Procs : Activation(p) /\ inv[p].pc = "done" /\ inv[p].wall = FileA
    /\ cache[FileA].meta.t = "absent" /\ cache[FileA].thumb = "done"
    /\ cache[FileB].meta.t = "json" /\ cache[FileB].meta.v.m.is_animated

\* C8: a smart.json that holds no smart-options record counts as a miss:
\* get_smart_opts never fails on reading it, and what it returns is a record
\* with a variant and a mode in {light, dark}, which the file then holds.
C8_CorruptIsMiss ==
    \A p \in Procs :
        /\ inv[p].pc = "failed" => inv[p].err.at \notin {"gs_read", "sw_smart_apply"}
        /\ (inv[p].op = "get_smart_opts" /\ inv[p].pc = "done")
              => (/\ inv[p].ret.v.j = "opts"
                  /\ inv[p].ret.v.mode \in {"light", "dark"}
                  /\ cache[inv[p].wall].smart = FJson(inv[p].ret.v))

\* C9: no invocation observes a cache artifact whose write has not
\* completed: get_thumb never returns such a thumbnail and the thumbnail link
\* never targets one.
C9_NoPartialObserved ==
    /\ \A p \in Procs : inv[p].ret.k = "thumb" => inv[p].ret.state = "done"
    /\ tlink # NoPath => cache[tlink].thumb = "done"

\* C10 (as stated): once the wallpaper link, or the thumbnail link, exists,
\* no step takes it away.
C10_LinkNeverMissing ==
    [][(link # NoPath => link' # NoPath) /\ (tlink # NoPath => tlink' # NoPath)]_vars

\* C10 (amended): a link goes missing only by the unlink of an activation,
\* which then stands before its symlink_to; when an activation leaves its
\* symlink_to the link is present (created by it with its own target, or
\* found there), and a present link always has an existing target.
C10_MissingOnlyMidUpdate ==
    [][/\ (link # NoPath /\ link' = NoPath)
            => \E p \in Procs : inv[p].pc = "sw_unlink" /\ inv'[p].pc = "sw_symlink"
       /\ (tlink # NoPath /\ tlink' = NoPath)
            => \E p \in Procs : inv[p].pc = "sw_tunlink" /\ inv'[p].pc = "sw_tsymlink"
       /\ \A p \in Procs :
            /\ (inv[p].pc = "sw_symlink" /\ inv'[p].pc # "sw_symlink")
                  => (/\ link' # NoPath /\ IsFile(link')
                      /\ (link = NoPath => link' = inv[p].wall))
            /\ (inv[p].pc = "sw_tsymlink" /\ inv'[p].pc # "sw_tsymlink")
                  => (/\ tlink' # NoPath /\ cache'[tlink'].thumb # "absent"
                      /\ (tlink = NoPath => tlink' = inv[p].wall))]_vars

\* C10 witness: one activation has completed and another has removed the
\* wallpaper link and not yet created it again.
C10_Witness ==
    \E p, q \in Procs :
        /\ Activation(q) /\ inv[q].pc = "done"
        /\ Activation(p) /\ inv[p].pc = "sw_symlink" /\ link = NoPath

\* C11: an activation that repeats the one before it (same file, same
\* no_smart, same scheme name read, nothing changed from outside in between)
\* ends with the path file, both links and every cache file as the first
\* activation left them.
C11_Idempotent ==
    \A p \in Procs :
        (/\ Activation(p) /\ inv[p].pc \in {"done", "failed"}
         /\ inv[p].again.on /\ inv[p].envs0 = envs
         /\ inv[p].again.seen = inv[p].seen)
            => <<pointer, link, tlink, cache>> = inv[p].again.disk

\* C11 witness: the second of two completed activations of the same
\* wallpaper, both with smart options derived under the dynamic scheme.
C11_Witness ==
    \E p \in Procs :
        /\ Activation(p) /\ inv[p].pc = "done" /\ inv[p].again.on
        /\ inv[p].wall = FileA /\ pointer = FileA /\ ~inv[p].no_smart
        /\ inv[p].seen = "dynamic" /\ inv[p].again.seen = "dynamic"
        /\ cache[FileA].smart.t = "json" /\ link = FileA /\ tlink = FileA

\* The gate of the smart derivation, for an activation that has read the scheme.
Gated(p) == inv[p].seen = "dynamic" /\ ~inv[p].no_smart
InSmartOpts(p) ==
    \/ inv[p].pc \in {"gs_read", "gs_compute", "gs_open", "gs_dump", "sw_smart_apply"}
    \/ \E i \in 1..Len(inv[p].stack) : inv[p].stack[i] \in {"gs_compute", "sw_smart_apply"}

\* C15: at the recomputation the scheme carries the smart options (those now
\* in smart.json) if the scheme is "dynamic" and smart derivation is enabled,
\* and the mode and variant get_scheme gave otherwise; an activation that is
\* not so gated is never inside get_smart_opts and never writes smart.json.
C15_SmartGated ==
    \A p \in Procs :
        (Activation(p) /\ inv[p].seen # "") =>
            /\ (inv[p].pc = "sw_update" /\ Gated(p)) =>
                   /\ cache[inv[p].wall].smart.t = "json"
                   /\ inv[p].sch.mode = cache[inv[p].wall].smart.v.mode
                   /\ inv[p].sch.variant = cache[inv[p].wall].smart.v.variant
            /\ (inv[p].pc = "sw_update" /\ ~Gated(p)) => inv[p].sch \in Schemes
            /\ ~Gated(p) => (~InSmartOpts(p) /\ "smart" \notin inv[p].wrote)
            /\ InSmartOpts(p) => Gated(p)

\* C15 witness: a gated activation of a.png at the recomputation, the scheme
\* overwritten with the options derived from its thumbnail.
C15_Witness ==
    \E p \in Procs :
        /\ Activation(p) /\ inv[p].pc = "sw_update" /\ Gated(p) /\ inv[p].wall = FileA
        /\ "smart" \in inv[p].wrote
        /\ inv[p].sch.mode = "light" /\ inv[p].sch.variant = "vibrant"

\* C16: the smart options get_smart_opts computes have mode "light" exactly
\* when the tone of the thumbnail's 1x1 downscale is above 60: tone 60 gives
\* "dark", tone 61 "light".
C16_ModeBoundary ==
    \A p \in Procs :
        inv[p].pc \in {"gs_open", "gs_dump"} =>
            LET tone == Decoded(inv[p].wall).tone
            IN /\ tone > 60 => inv[p].ret.v.mode = "light"
               /\ tone <= 60 => inv[p].ret.v.mode = "dark"
               /\ tone = 60 => inv[p].ret.v.mode = "dark"
               /\ tone = 61 => inv[p].ret.v.mode = "light"

\* C16 witness: options computed for b.GIF, whose tone is exactly 60.
C16_Witness ==
    \E p \in Procs :
        /\ inv[p].pc = "gs_dump" /\ inv[p].wall = FileB /\ Decoded(FileB).tone = 60
        /\ inv[p].ret.v.mode = "dark"

\* The state set_random leaves when it calls set_wallpaper or raises: cands
\* is what get_wallpapers returned, last the path file's content, pool the
\* list given to random.choice.
AfterSetRandom(p) == inv[p].op = "set_random"
InCands(p, x) == \E i \in 1..Len(inv[p].cands) : inv[p].cands[i] = x

\* C17: with candidates found and the path file missing or naming none of
\* them, set_random does not fail and passes to set_wallpaper one element of
\* the whole candidate list.
C17_PointerIgnored ==
    \A p \in Procs :
        (/\ AfterSetRandom(p) /\ inv[p].cands # <<>>
         /\ (inv[p].last = NoPath \/ ~InCands(p, inv[p].last))) =>
            /\ inv[p].pc = "sw_check" /\ inv[p].err = NoErr
            /\ inv[p].pool = inv[p].cands
            /\ InCands(p, inv[p].wall)

\* C17 witness: the path file names b.GIF, which the resolution filter left
\* out of the candidates, and set_random goes on to activate a candidate.
C17_Witness ==
    \E p \in Procs :
        /\ AfterSetRandom(p) /\ inv[p].pc = "sw_check"
        /\ inv[p].last = FileB /\ inv[p].cands = <<FileA>> /\ inv[p].wall = FileA

\* C18: in a cache entry only the program has written, smart.json exists
\* only if the thumbnail exists.
C18_SmartNeedsThumb ==
    \A key \in Files \ tampered :
        cache[key].smart.t # "absent" => cache[key].thumb # "absent"

\* C18 witness: get_smart_opts has computed and written the options of an
\* entry nobody else touched, the thumbnail it generated beside them.
C18_Witness ==
    \E p \in Procs :
        /\ inv[p].op = "get_smart_opts" /\ inv[p].pc = "done" /\ "smart" \in inv[p].wrote
        /\ inv[p].decoded /\ Key(p) \notin tampered
        /\ cache[Key(p)].smart.t = "json" /\ cache[Key(p)].thumb = "done"

\* C19: of two interleaved activations of valid wallpapers neither fails by
\* what the other did: symlink_to never finds the link the other created in
\* between, and no step fails on a cache file the other is writing.
C19_NoInterference ==
    \A p \in Procs :
        (Activation(p) /\ inv[p].pc = "failed") =>
            /\ inv[p].err.exc \notin {"FileExistsError", "OSError: truncated image"}
            /\ inv[p].err.at \notin {"sw_symlink", "sw_tsymlink"}

\* C20: whenever no invocation is in progress and an activation has ended,
\* completed or failed, the path file, the wallpaper link and the thumbnail
\* link name the same wallpaper (the thumbnail link by the cache entry its
\* target lies in).
C20_PointersAgree ==
    (AllQuiet /\ \E p \in Procs : Activation(p) /\ inv[p].pc \in {"done", "failed"})
        => (link = pointer /\ tlink = pointer)

\* ------------------------------------------------------------------ fairness
\* The statements of the invocation running in process p.
Run(p) ==
    \/ SwCheck(p) \/ SwUnlink(p) \/ SwSymlink(p) \/ SwMeta(p) \/ SwMetaDump(p)
    \/ GtCheck(p) \/ GtOpen(p) \/ GtClose(p) \/ SwTUnlink(p) \/ SwTSymlink(p)
    \/ SwScheme(p) \/ GsRead(p) \/ GsCompute(p) \/ GsOpen(p) \/ GsDump(p)
    \/ SwSmartApply(p) \/ SwUpdate(p) \/ SwHook(p) \/ HookExit(p)

\* Spec with the scheduling the operating system gives: an invocation that
\* can take its next statement (a hook that exits included) takes it.
FairSpec == Spec /\ \A p \in Procs : WF_vars(Run(p))

\* C12: every invocation of set_wallpaper eventually completes or fails,
\* whatever the post-hook command does.
C12_Terminates == \A p \in Procs : (~Quiet(p)) ~> Quiet(p)

\* ------------------------------------------------------------------ inspector alone
\* _extract_animated_metadata on the images a decoder can report: animated
\* with two or more frames, or static (n_frames is then not read); the
\* duration absent, zero, positive or a non-numeric string; any loop value.
MaxFrames == 3
DecoderReports ==
    { img \in [is_animated : BOOLEAN, n_frames : 1..MaxFrames, format : {"GIF", "PNG", "WEBP"},
               duration : {Absent, IntV(0), IntV(40), IntV(100), StrV},
               loop : {Absent, IntV(0), IntV(2), StrV}] :
        img.is_animated <=> img.n_frames > 1 }

InspectInit ==
    /\ src = [f \in Files |-> InitialKind(f)]
    /\ pointer = NoPath /\ link = NoPath /\ tlink = NoPath
    /\ cache = [f \in Files |-> EmptyEntry]
    /\ calls = 0 /\ envs = 0 /\ tampered = {}
    /\ \E img \in DecoderReports :
           inv = [p \in Procs |-> IF p = Main THEN [pc |-> "ex_open", img |-> img, ret |-> NoRet]
                                              ELSE Fresh]

\* The call: the record returned for the opened image.
Inspect(p) ==
    /\ inv[p].pc = "ex_open"
    /\ inv' = [inv EXCEPT ![p] = [inv[p] EXCEPT !.pc = "inspected", !.ret = JsonRet(MetadataOfImage(inv[p].img))]]
    /\ UNCHANGED <<disk, calls, envs, tampered>>

InspectNext == \E p \in Procs : Inspect(p)
InspectSpec == InspectInit /\ [][InspectNext]_vars

\* C13: total_duration_ms is frame_duration_ms * n_frames whenever the
\* returned frame_duration_ms is a number (zero and static images included),
\* null otherwise; frame_duration_ms is null when no duration is reported.
C13_Arithmetic ==
    \A p \in Procs :
        inv[p].pc = "inspected" =>
            LET m == inv[p].ret.v
            IN /\ m.frame_duration_ms # None =>
                      m.total_duration_ms = IntV(m.frame_duration_ms.v * m.n_frames)
               /\ m.frame_duration_ms = None => m.total_duration_ms = None
               /\ inv[p].img.duration = Absent => m.frame_duration_ms = None

\* ------------------------------------------------------------------ selector alone
\* get_wallpapers on the roots, thresholds (in tenths) and monitor lists a
\* caller and a compositor can give it.  The root /home holds g.jpg, a
\* candidate no decoder opens.
MonitorSizes ==
    {[width |-> 800, height |-> 600], [width |-> 1920, height |-> 1080],
     [width |-> 1000, height |-> 300], [width |-> 600, height |-> 1080]}
MonitorLists == {<<m>> : m \in MonitorSizes} \cup {<<m, n>> : m, n \in MonitorSizes}
SelectArgs == [random : {WallsAbs, WallsRel, NoDirRel, Cwd}, no_filter : BOOLEAN, threshold : {0, 5, 8, 10}]

SelectInit ==
    /\ src = [f \in Files |-> InitialKind(f)]
    /\ pointer = NoPath /\ link = NoPath /\ tlink = NoPath
    /\ cache = [f \in Files |-> EmptyEntry]
    /\ calls = 0 /\ envs = 0 /\ tampered = {}
    /\ \E args \in SelectArgs :
           inv = [p \in Procs |-> IF p = Main
                                  THEN [pc |-> "gw_isdir", args |-> args, monitors |-> <<>>,
                                        exc |-> "none", walls |-> <<>>]
                                  ELSE Fresh]

\* The call: message("monitors") is sent only past the two early returns.
GetWallpapers(p) ==
    /\ inv[p].pc = "gw_isdir"
    /\ LET args == inv[p].args
       IN IF ResolveDir(args.random) \notin Dirs \/ args.no_filter
          THEN LET got == get_wallpapers(args, <<>>)
               IN inv' = [inv EXCEPT ![p] = [inv[p] EXCEPT !.pc = "gw_return", !.walls = got.walls]]
          ELSE \E monitors \in MonitorLists :
                   LET got == get_wallpapers(args, monitors)
                   IN inv' = [inv EXCEPT ![p] =
                                [inv[p] EXCEPT !.pc = IF got.exc = "none" THEN "gw_return" ELSE "gw_raise",
                                               !.monitors = monitors, !.exc = got.exc,
                                               !.walls = got.walls]]
    /\ UNCHANGED <<disk, calls, envs, tampered>>

SelectNext == \E p \in Procs : GetWallpapers(p)
SelectSpec == SelectInit /\ [][SelectNext]_vars

\* The valid images under a root, by resolved path.
ValidUnder(root) == {f \in Files : is_valid_image(f) /\ IsPrefix(ResolveDir(root), f.dir)}
Returned(p) == {Resolve(inv[p].walls[i]) : i \in 1..Len(inv[p].walls)}

\* C14: with filtering, a valid image of size (w, h) is returned iff
\* w >= threshold * (least monitor width) and h >= threshold * (least monitor
\* height); without filtering every valid image under the root is returned
\* and no monitor is queried; a root that is no directory gives the empty list.
C14_Filter ==
    \A p \in Procs :
        inv[p].pc = "gw_return" =>
            LET args == inv[p].args
                mons == inv[p].monitors
                isdir == ResolveDir(args.random) \in Dirs
            IN /\ ~isdir => inv[p].walls = <<>>
               /\ (isdir /\ args.no_filter) =>
                      /\ Returned(p) = ValidUnder(args.random)
                      /\ Len(inv[p].walls) = Cardinality(ValidUnder(args.random))
                      /\ mons = <<>>
               /\ (isdir /\ ~args.no_filter) =>
                      \A f \in ValidUnder(args.random) :
                          f \in Returned(p) <=>
                              /\ \A i \in 1..Len(mons) :
                                     \E j \in 1..Len(mons) :
                                         /\ mons[j].width <= mons[i].width
                                         /\ Decoded(f).w * 10 >= args.threshold * mons[j].width
                              /\ \A i \in 1..Len(mons) :
                                     \E j \in 1..Len(mons) :
                                         /\ mons[j].height <= mons[i].height
                                         /\ Decoded(f).h * 10 >= args.threshold * mons[j].height

\* C14 witness: a filtered call whose two minima come from different
\* monitors and which keeps one valid image and drops the other.
C14_Witness ==
    \E p \in Procs :
        /\ inv[p].pc = "gw_return" /\ ~inv[p].args.no_filter
        /\ inv[p].monitors = <<[width |-> 1000, height |-> 300], [width |-> 600, height |-> 1080]>>
        /\ inv[p].args.threshold = 8
        /\ FileA \in Returned(p) /\ FileB \notin Returned(p)
        /\ ValidUnder(inv[p].args.random) = {FileA, FileB}

====
